---- MODULE Spec2Model ----
(***************************************************************************)
(* A model of UserFlowAnalyzer (src/sources/user_flow_analyzer.py): the    *)
(* pipeline load_data -> process_events -> analyze_flows ->                *)
(* detect_anomalies over a newline-delimited JSON response.                *)
(*                                                                         *)
(* Python strings are sequences of one-character strings, so that lower(), *)
(* `in`, startswith(), replace(), join() and the lexicographic `<` of the  *)
(* sort key are computed as Python computes them.  A JSON value held in a  *)
(* field is a record [t, s]: t is its JSON type ("absent" when the key is  *)
(* missing) and s its characters.                                          *)
(*                                                                         *)
(* A finding is a record of its title, its severity and the members of its *)
(* details that are counts or lists.  Numbers the code formats into text   *)
(* (rates, averages, gap lengths) are kept exact, as pairs (numerator,     *)
(* denominator) or as seconds; the description text is left out.           *)
(*                                                                         *)
(* An exception that leaves a handler is a "raised_in_..." position of pc: *)
(* run_analysis does not catch it, so the run ends there.  Between two of  *)
(* the calls analyze_flows and detect_anomalies make, pc is the name of    *)
(* the method called next.                                                 *)
(***************************************************************************)
EXTENDS Integers, Sequences, FiniteSets, TLC

VARIABLES
    response,        \* response.text.strip().split('\n'): the lines fetched
    line_no,         \* position of load_data's loop in the lines
    events,          \* self.events
    valid_events,    \* load_data's counter
    invalid_events,  \* load_data's counter
    user_sessions,   \* self.user_sessions, in dict insertion order
    flows,           \* self.flows
    anomalies,       \* self.anomalies
    locals,          \* analyze_flows' local accumulators, as last computed
    twin,            \* a second fresh analyzer run on the same input
    pc               \* position of run_analysis

vars == <<response, line_no, events, valid_events, invalid_events,
          user_sessions, flows, anomalies, locals, twin, pc>>

-----------------------------------------------------------------------------
(* Bounds of the model *)

MaxLines == 3

\* the longest single session explored
MaxWalk == 12

\* the most one-event and two-event sessions explored together
MaxSingles == 25
MaxDoubles == 6

-----------------------------------------------------------------------------
(* Python str operations *)

Min(a, b) == IF a <= b THEN a ELSE b

Range(seq) == {seq[i] : i \in 1..Len(seq)}

UpperCase == <<"A","B","C","D","E","F","G","H","I","J","K","L","M",
               "N","O","P","Q","R","S","T","U","V","W","X","Y","Z">>
LowerCase == <<"a","b","c","d","e","f","g","h","i","j","k","l","m",
               "n","o","p","q","r","s","t","u","v","w","x","y","z">>

LowerChar(c) ==
    IF \E i \in 1..26 : UpperCase[i] = c
    THEN LowerCase[CHOOSE i \in 1..26 : UpperCase[i] = c]
    ELSE c

\* str.lower()
Lower(s) == [i \in 1..Len(s) |-> LowerChar(s[i])]

\* needle in hay
Contains(hay, needle) ==
    \E i \in 0..(Len(hay) - Len(needle)) :
        SubSeq(hay, i + 1, i + Len(needle)) = needle

\* str.startswith
StartsWith(s, p) == Len(s) >= Len(p) /\ SubSeq(s, 1, Len(p)) = p

RECURSIVE Replace(_, _, _)
\* str.replace(c, r) for a one-character c
Replace(s, c, r) ==
    IF s = <<>> THEN <<>>
    ELSE (IF Head(s) = c THEN r ELSE <<Head(s)>>) \o Replace(Tail(s), c, r)

\* ord() of the characters an accepted event_time can hold
Ord(c) ==
    CASE c = " " -> 32 [] c = "+" -> 43 [] c = "-" -> 45 [] c = "." -> 46
      [] c = "0" -> 48 [] c = "1" -> 49 [] c = "2" -> 50 [] c = "3" -> 51
      [] c = "4" -> 52 [] c = "5" -> 53 [] c = "6" -> 54 [] c = "7" -> 55
      [] c = "8" -> 56 [] c = "9" -> 57 [] c = ":" -> 58
      [] c = "T" -> 84 [] c = "Z" -> 90
      [] OTHER -> 127

\* a < b on str: by code point at the first difference, a proper prefix first
StrLess(a, b) ==
    LET n == Min(Len(a), Len(b))
        diff == {i \in 1..n : a[i] # b[i]}
    IN  IF diff = {} THEN Len(a) < Len(b)
        ELSE LET d == CHOOSE i \in diff : \A j \in diff : i <= j
             IN  Ord(a[d]) < Ord(b[d])

RECURSIVE Join(_, _)
\* sep.join(parts)
Join(sep, parts) ==
    IF parts = <<>> THEN <<>>
    ELSE IF Len(parts) = 1 THEN parts[1]
    ELSE parts[1] \o sep \o Join(sep, Tail(parts))

-----------------------------------------------------------------------------
(* datetime.fromisoformat, for YYYY-MM-DD[*HH:MM[:SS]][(+|-)HH:MM] *)

Digits == {"0","1","2","3","4","5","6","7","8","9"}

IsDigits(s) == \A i \in 1..Len(s) : s[i] \in Digits

DigitVal(c) == CHOOSE d \in 0..9 : Ord(c) = 48 + d

RECURSIVE NumVal(_)
NumVal(s) ==
    IF s = <<>> THEN 0
    ELSE 10 * NumVal(SubSeq(s, 1, Len(s) - 1)) + DigitVal(s[Len(s)])

IsLeap(y) == (y % 4 = 0 /\ y % 100 # 0) \/ y % 400 = 0

DaysInMonth(y, m) ==
    IF m = 2 THEN (IF IsLeap(y) THEN 29 ELSE 28)
    ELSE IF m \in {4, 6, 9, 11} THEN 30 ELSE 31

RECURSIVE DaysBeforeMonth(_, _)
DaysBeforeMonth(y, m) ==
    IF m = 1 THEN 0 ELSE DaysBeforeMonth(y, m - 1) + DaysInMonth(y, m - 1)

\* date.toordinal()
Ordinal(y, m, d) ==
    LET y1 == y - 1
    IN  y1 * 365 + (y1 \div 4) - (y1 \div 100) + (y1 \div 400)
        + DaysBeforeMonth(y, m) + d

ParseFail == [ok |-> FALSE, aware |-> FALSE, secs |-> 0]

DateOk(d) ==
    /\ Len(d) = 10
    /\ d[5] = "-" /\ d[8] = "-"
    /\ IsDigits(SubSeq(d, 1, 4)) /\ IsDigits(SubSeq(d, 6, 7))
    /\ IsDigits(SubSeq(d, 9, 10))
    /\ LET y == NumVal(SubSeq(d, 1, 4))
           m == NumVal(SubSeq(d, 6, 7))
           dd == NumVal(SubSeq(d, 9, 10))
       IN  y >= 1 /\ m \in 1..12 /\ dd >= 1 /\ dd <= DaysInMonth(y, m)

\* HH:MM or HH:MM:SS
ClockOk(t) ==
    /\ Len(t) \in {5, 8}
    /\ IsDigits(SubSeq(t, 1, 2)) /\ t[3] = ":" /\ IsDigits(SubSeq(t, 4, 5))
    /\ NumVal(SubSeq(t, 1, 2)) < 24 /\ NumVal(SubSeq(t, 4, 5)) < 60
    /\ Len(t) = 8 =>
          (t[6] = ":" /\ IsDigits(SubSeq(t, 7, 8)) /\ NumVal(SubSeq(t, 7, 8)) < 60)

ClockSecs(t) ==
    NumVal(SubSeq(t, 1, 2)) * 3600 + NumVal(SubSeq(t, 4, 5)) * 60
    + (IF Len(t) = 8 THEN NumVal(SubSeq(t, 7, 8)) ELSE 0)

\* the instant a parsed string denotes, in seconds since 2000-01-01T00:00:00
\* (local seconds when the string carries no offset)
FromIsoFormat(s) ==
    IF Len(s) < 10 \/ ~DateOk(SubSeq(s, 1, 10)) THEN ParseFail
    ELSE
    LET d == SubSeq(s, 1, 10)
        days == Ordinal(NumVal(SubSeq(d, 1, 4)), NumVal(SubSeq(d, 6, 7)),
                        NumVal(SubSeq(d, 9, 10))) - Ordinal(2000, 1, 1)
        rest == SubSeq(s, 12, Len(s))
        signs == {i \in 1..Len(rest) : rest[i] \in {"+", "-"}}
    IN  IF Len(s) = 10 THEN [ok |-> TRUE, aware |-> FALSE, secs |-> days * 86400]
        ELSE IF Len(s) = 11 THEN ParseFail
        ELSE IF signs = {} THEN
            IF ClockOk(rest)
            THEN [ok |-> TRUE, aware |-> FALSE,
                  secs |-> days * 86400 + ClockSecs(rest)]
            ELSE ParseFail
        ELSE
            LET p == CHOOSE i \in signs : \A j \in signs : i <= j
                clock == SubSeq(rest, 1, p - 1)
                tz == SubSeq(rest, p + 1, Len(rest))
                sign == IF rest[p] = "-" THEN -1 ELSE 1
            IN  IF ClockOk(clock) /\ Len(tz) = 5 /\ ClockOk(tz)
                THEN [ok |-> TRUE, aware |-> TRUE,
                      secs |-> days * 86400 + ClockSecs(clock)
                               - sign * ClockSecs(tz)]
                ELSE ParseFail

\* datetime.fromisoformat(x.replace('Z', '+00:00'))
ParseEventTime(s) == FromIsoFormat(Replace(s, "Z", <<"+","0","0",":","0","0">>))

-----------------------------------------------------------------------------
(* JSON values *)

Absent == [t |-> "absent", s |-> <<>>]
Null == [t |-> "null", s |-> <<>>]
JStr(chars) == [t |-> "str", s |-> chars]
JNum(chars) == [t |-> "num", s |-> chars]

\* a parsed line that is a JSON object with these members
Obj(u, sid, time, p, css, text) ==
    [kind |-> "object", user_id |-> u, session_id |-> sid, event_time |-> time,
     path |-> p, css |-> css, text |-> text]

BlankLine == [kind |-> "blank"]
MalformedLine == [kind |-> "malformed"]
NumberLine == [kind |-> "number"]
NullLine == [kind |-> "null"]
StringLine(chars) == [kind |-> "string", s |-> chars]
ListLine(items) == [kind |-> "list", items |-> items]

RequiredFields == <<"user_id", "session_id", "event_time", "path">>

FieldChars(f) ==
    CASE f = "user_id" -> <<"u","s","e","r","_","i","d">>
      [] f = "session_id" -> <<"s","e","s","s","i","o","n","_","i","d">>
      [] f = "event_time" -> <<"e","v","e","n","t","_","t","i","m","e">>
      [] f = "path" -> <<"p","a","t","h">>

Field(event, f) ==
    CASE f = "user_id" -> event.user_id
      [] f = "session_id" -> event.session_id
      [] f = "event_time" -> event.event_time
      [] f = "path" -> event.path

\* `field in event` (line 54) for an object, a str (substring) or a list (member)
HasKey(line, f) ==
    CASE line.kind = "object" -> Field(line, f).t # "absent"
      [] line.kind = "string" -> Contains(line.s, FieldChars(f))
      [] line.kind = "list" ->
            \E i \in 1..Len(line.items) : line.items[i] = JStr(FieldChars(f))

RECURSIVE CheckFields(_, _)
\* the loop over required_fields from the i-th field on: "ok" when it falls
\* through, "false" on return False, "TypeError" when the test itself raises
\* (`in` on an int, a bool or None; event[field] on a str or a list)
CheckFields(line, i) ==
    IF i > Len(RequiredFields) THEN "ok"
    ELSE LET f == RequiredFields[i]
         IN  IF line.kind \in {"number", "null"} THEN "TypeError"
             ELSE IF ~HasKey(line, f) THEN "false"
             ELSE IF line.kind # "object" THEN "TypeError"
             ELSE IF Field(line, f).t = "null" THEN "false"
             ELSE CheckFields(line, i + 1)

\* _is_valid_event on what json.loads returned: "true", "false" or "TypeError"
IsValidEventNoTimeCheck(line) ==
    LET c == CheckFields(line, 1)
    IN  IF c # "ok" THEN c ELSE "true"

IsValidEvent(line) ==
    LET c == CheckFields(line, 1)
    IN  IF c # "ok" THEN c
        ELSE IF line.event_time.t # "str" THEN "false"
        ELSE IF ~ParseEventTime(line.event_time.s).ok THEN "false"
        ELSE "true"

-----------------------------------------------------------------------------
(* The inputs explored *)

Chars_place_order == <<"p","l","a","c","e"," ","o","r","d","e","r">>
Chars_error == <<"e","r","r","o","r">>
Chars_cancel == <<"c","a","n","c","e","l">>
Chars_checkout == <<"/","c","h","e","c","k","o","u","t">>
Chars_products == <<"/","p","r","o","d","u","c","t","s","/">>
Chars_home == <<"/","h","o","m","e">>
Chars_arrow == <<" ","→"," ">>

U1 == JStr(<<"u","1">>)
U2 == JStr(<<"u","2">>)
S1 == JStr(<<"s","1">>)
S2 == JStr(<<"s","2">>)

Home == JStr(Chars_home)
Checkout == JStr(Chars_checkout)
Product1 == JStr(Chars_products \o <<"1">>)
Product2 == JStr(Chars_products \o <<"2">>)
ProductsIndex == JStr(<<"/","p","r","o","d","u","c","t","s">>)
EmptyPath == JStr(<<>>)

\* "2024-01-01T<hh:mm>:00<suffix>"
TimeStr(hhmm, suffix) ==
    JStr(<<"2","0","2","4","-","0","1","-","0","1","T">> \o hhmm
         \o <<":","0","0">> \o suffix)

Zulu == <<"Z">>
Utc == <<"+","0","0",":","0","0">>
Plus2 == <<"+","0","2",":","0","0">>

T_1000_Z == TimeStr(<<"1","0",":","0","0">>, Zulu)
T_1000_Utc == TimeStr(<<"1","0",":","0","0">>, Utc)
T_1100_Plus2 == TimeStr(<<"1","1",":","0","0">>, Plus2)
T_1005_Z == TimeStr(<<"1","0",":","0","5">>, Zulu)
T_1030_Z == TimeStr(<<"1","0",":","3","0">>, Zulu)
T_BadMonth == JStr(<<"2","0","2","4","-","1","3","-","0","1","T","1","0",":",
                     "0","0",":","0","0","Z">>)

Text_PlaceOrder == JStr(<<"P","l","a","c","e"," ","O","r","d","e","r">>)
Text_CancelOrder == JStr(<<"C","a","n","c","e","l"," ","o","r","d","e","r">>)
Css_ErrorBanner == JStr(<<".","E","r","r","o","r","-","b","a","n","n","e","r">>)

\* lines of every shape load_data can meet
LoadPool ==
    { BlankLine, MalformedLine, NumberLine, NullLine,
      StringLine(<<"a","b","c">>),
      StringLine(<<"u","s","e","r","_","i","d">>),
      ListLine(<<>>),
      ListLine(<<JStr(<<"u","s","e","r","_","i","d">>)>>),
      Obj(U1, S1, T_1000_Z, Absent, Absent, Absent),
      Obj(U1, Null, T_1000_Z, Home, Absent, Absent),
      Obj(U1, S1, JNum(<<"1","7">>), Home, Absent, Absent),
      Obj(U1, S1, T_BadMonth, Home, Absent, Absent),
      Obj(U1, S1, T_1005_Z, Home, Absent, Absent),
      Obj(U2, S1, T_1000_Utc, Checkout, Absent, Text_PlaceOrder) }

\* accepted events, varied in user, session, offset notation, path and text
EventPool ==
    { Obj(U1, S1, T_1000_Z, Home, Absent, Absent),
      Obj(U2, S1, T_1100_Plus2, Home, Absent, Absent),
      Obj(U1, S1, T_1100_Plus2, Product1, Absent, Absent),
      Obj(U2, S1, T_1000_Z, Product1, Absent, Absent),
      Obj(U1, S1, T_1000_Utc, Product2, Absent, Absent),
      Obj(U1, S2, T_1005_Z, ProductsIndex, Absent, Absent),
      Obj(U2, S1, T_1030_Z, EmptyPath, Absent, Absent),
      Obj(U1, S1, T_1005_Z, Checkout, Absent, Text_PlaceOrder),
      Obj(U1, S1, T_1000_Utc, Checkout, Absent, Text_CancelOrder),
      Obj(U1, S1, T_1030_Z, Checkout, Css_ErrorBanner, Text_PlaceOrder) }

Text_Error404 == JStr(<<"E","r","r","o","r"," ","4","0","4">>)
Text_PaymentFailed ==
    JStr(<<"P","a","y","m","e","n","t"," ","F","A","I","L","E","D">>)
Text_Invalid == JStr(<<"I","n","v","a","l","i","d">>)
Text_TimeOut == JStr(<<"T","i","m","e"," ","o","u","t">>)
Css_Timeout == JStr(<<".","T","i","m","e","o","u","t">>)
Css_MissingField ==
    JStr(<<"#","m","i","s","s","i","n","g","-","f","i","e","l","d">>)

\* accepted events with and without error keywords in css and text
ErrorPool ==
    { Obj(U1, S1, T_1000_Z, Home, Absent, Text_Error404),
      Obj(U2, S1, T_1005_Z, Home, Css_Timeout, Absent),
      Obj(U1, S1, T_1005_Z, Checkout, Absent, Text_PaymentFailed),
      Obj(U1, S2, T_1000_Z, Product1, Css_MissingField, Text_Invalid),
      Obj(U1, S1, T_1030_Z, Checkout, Absent, Text_PlaceOrder),
      Obj(U2, S1, T_1000_Z, Home, Absent, Absent),
      Obj(U1, S1, T_1000_Z, Home, Css_ErrorBanner, Text_PlaceOrder),
      Obj(U1, S1, T_1030_Z, Home, Absent, Text_TimeOut) }

\* 10:30:00 with no offset: accepted by fromisoformat, and not comparable
\* with an instant that has one
T_1030_Naive == TimeStr(<<"1","0",":","3","0">>, <<>>)

\* events the validator accepts: css or text null, a path that is a number,
\* a timestamp without offset, and events of the usual shape around them
AcceptedPool ==
    { Obj(U1, S1, T_1000_Z, Home, Null, Absent),
      Obj(U1, S1, T_1005_Z, Checkout, Absent, Null),
      Obj(U1, S1, T_1005_Z, JNum(<<"7">>), Absent, Absent),
      Obj(U1, S1, T_1030_Naive, Home, Absent, Absent),
      Obj(U1, S1, T_1030_Z, Checkout, Absent, Text_PlaceOrder),
      Obj(U1, S1, T_1000_Z, Product1, Absent, Absent),
      Obj(U2, S1, T_1005_Z, Home, Css_ErrorBanner, Absent),
      Obj(U2, S1, T_1000_Z, Product2, Absent, Absent) }

SeqsUpTo(S, n) == UNION { [1..k -> S] : k \in 0..n }

DigitChars == <<"0","1","2","3","4","5","6","7","8","9">>

TwoDigits(n) == <<DigitChars[(n \div 10) + 1], DigitChars[(n % 10) + 1]>>

\* the event_time `minutes` after 2024-01-01T10:00:00Z
TimeAt(minutes) ==
    TimeStr(TwoDigits(10 + (minutes \div 60)) \o <<":">> \o TwoDigits(minutes % 60),
            Zulu)

SessionId(k) == JStr(<<"s">> \o TwoDigits(k))

PagePath(k) == JStr(<<"/","p","a","g","e","/">> \o TwoDigits(k))

\* minute of the i-th event of a walk: the deltas alternate between step + 1
\* and step - 1 minutes
WalkMinute(i, step) == (i - 1) * step + ((i - 1) % 2)

\* step 6: deltas of 420 s and 300 s; step 29: deltas of 1800 s and 1680 s
WalkSteps == {6, 29}

\* one session of n events, `pages` distinct paths visited in turn
Walk(n, step, pages) ==
    [i \in 1..n |->
       Obj(U1, S1, TimeAt(WalkMinute(i, step)), PagePath(1 + ((i - 1) % pages)),
           Absent, Absent)]

Walks ==
    {Walk(n, step, pages) : n \in 0..MaxWalk, step \in WalkSteps,
                            pages \in {1, 2, MaxWalk}}

\* `singles` sessions of one event followed by `doubles` sessions of two
Crowd(singles, doubles) ==
    [i \in 1..(singles + 2 * doubles) |->
       Obj(U1,
           SessionId(IF i <= singles THEN i ELSE singles + ((i - singles + 1) \div 2)),
           T_1000_Z, Home, Absent, Absent)]

Crowds == {Crowd(n, d) : n \in 0..MaxSingles, d \in 0..MaxDoubles}

-----------------------------------------------------------------------------
(* __init__ *)

NoLocals ==
    [successful_checkouts |-> <<>>, abandoned_flows |-> <<>>,
     path_sequences |-> <<>>, abandonment_points |-> <<>>,
     entry_points |-> <<>>, product_sessions |-> <<>>, reached |-> {}]

NoTwin == [ran |-> FALSE, flows |-> <<>>, anomalies |-> <<>>, raised |-> FALSE]

InitFrom(responses) ==
    /\ response \in responses
    /\ line_no = 1
    /\ events = <<>>
    /\ valid_events = 0
    /\ invalid_events = 0
    /\ user_sessions = <<>>
    /\ flows = <<>>
    /\ anomalies = <<>>
    /\ locals = NoLocals
    /\ twin = NoTwin
    /\ pc = "load_data"

InitWith(pool) == InitFrom(SeqsUpTo(pool, MaxLines))

Init == InitWith(EventPool)

InitLoad == InitWith(LoadPool)

InitErrors == InitWith(ErrorPool)

InitAccepted == InitWith(AcceptedPool)

\* the accepted events again, and longer responses: single sessions of up to
\* MaxWalk events and crowds of short sessions
InitMany == InitFrom(SeqsUpTo(EventPool, MaxLines) \cup Walks \cup Crowds)

-----------------------------------------------------------------------------
(* load_data *)

\* one iteration of the loop of lines 32-43
LoadLine ==
    /\ pc = "load_data"
    /\ line_no <= Len(response)
    /\ LET line == response[line_no]
           verdict == IF line.kind \in {"blank", "malformed"} THEN "none"
                      ELSE IsValidEvent(line)
       IN  /\ events' = IF verdict = "true" THEN Append(events, line) ELSE events
           /\ valid_events' = IF verdict = "true" THEN valid_events + 1
                              ELSE valid_events
           /\ invalid_events' =
                 IF line.kind = "malformed" \/ verdict = "false"
                 THEN invalid_events + 1 ELSE invalid_events
           /\ pc' = IF verdict = "TypeError" THEN "raised_in_load_data"
                    ELSE "load_data"
    /\ line_no' = line_no + 1
    /\ UNCHANGED <<response, user_sessions, flows, anomalies, locals, twin>>

\* the loop is exhausted: load_data returns
LoadReturn ==
    /\ pc = "load_data"
    /\ line_no > Len(response)
    /\ pc' = "process_events"
    /\ UNCHANGED <<response, line_no, events, valid_events, invalid_events,
                   user_sessions, flows, anomalies, locals, twin>>

-----------------------------------------------------------------------------
(* process_events *)

EventTimeKey(e) == e.event_time.s

\* key(a) < key(b) for the sort key of line 74: a comparison of str
KeyLess(a, b) == StrLess(EventTimeKey(a), EventTimeKey(b))

\* e put after every element whose key is not greater: list.sort is stable
InsertSorted(sorted, e) ==
    LET after == {i \in 1..Len(sorted) : KeyLess(e, sorted[i])}
        k == IF after = {} THEN Len(sorted) + 1
             ELSE CHOOSE i \in after : \A j \in after : i <= j
    IN  SubSeq(sorted, 1, k - 1) \o <<e>> \o SubSeq(sorted, k, Len(sorted))

RECURSIVE SortEvents(_)
\* self.events.sort(key=lambda x: x['event_time'])
SortEvents(es) ==
    IF es = <<>> THEN <<>>
    ELSE InsertSorted(SortEvents(SubSeq(es, 1, Len(es) - 1)), es[Len(es)])

\* a session is keyed by user_id alone, then session_id
SessionsAppend(sessions, e) ==
    IF \E j \in 1..Len(sessions) : sessions[j].session_id = e.session_id
    THEN [j \in 1..Len(sessions) |->
            IF sessions[j].session_id = e.session_id
            THEN [sessions[j] EXCEPT !.events = Append(@, e)]
            ELSE sessions[j]]
    ELSE Append(sessions, [session_id |-> e.session_id, events |-> <<e>>])

GroupAddBySessionOnly(us, e) ==
    IF us = <<>>
    THEN <<[user_id |-> e.user_id, sessions |-> SessionsAppend(<<>>, e)]>>
    ELSE <<[us[1] EXCEPT !.sessions = SessionsAppend(@, e)]>>

\* self.user_sessions[user_id][session_id].append(event)
GroupAdd(us, e) ==
    IF \E i \in 1..Len(us) : us[i].user_id = e.user_id
    THEN [i \in 1..Len(us) |->
            IF us[i].user_id = e.user_id
            THEN [us[i] EXCEPT !.sessions = SessionsAppend(@, e)]
            ELSE us[i]]
    ELSE Append(us, [user_id |-> e.user_id,
                     sessions |-> SessionsAppend(<<>>, e)])

RECURSIVE GroupEvents(_)
\* the loop of lines 77-80
GroupEvents(es) ==
    IF es = <<>> THEN <<>>
    ELSE GroupAdd(GroupEvents(SubSeq(es, 1, Len(es) - 1)), es[Len(es)])

ProcessEvents ==
    /\ pc = "process_events"
    /\ events' = IF events = <<>> THEN events ELSE SortEvents(events)
    /\ user_sessions' = IF events = <<>> THEN user_sessions
                        ELSE GroupEvents(SortEvents(events))
    /\ pc' = "analyze_flows"
    /\ UNCHANGED <<response, line_no, valid_events, invalid_events,
                   flows, anomalies, locals, twin>>

RECURSIVE FlattenSessions(_)
\* for user_id, sessions in self.user_sessions.items():
\*     for session_id, events in sessions.items():
FlattenSessions(us) ==
    IF us = <<>> THEN <<>>
    ELSE [j \in 1..Len(us[1].sessions) |->
            [user_id |-> us[1].user_id,
             session_id |-> us[1].sessions[j].session_id,
             events |-> us[1].sessions[j].events]]
         \o FlattenSessions(Tail(us))

-----------------------------------------------------------------------------
(* collections.Counter, in insertion order *)

CounterAdd(c, k) ==
    IF \E i \in 1..Len(c) : c[i].key = k
    THEN [i \in 1..Len(c) |->
            IF c[i].key = k THEN [c[i] EXCEPT !.n = @ + 1] ELSE c[i]]
    ELSE Append(c, [key |-> k, n |-> 1])

RECURSIVE CounterOf(_)
\* Counter(list)
CounterOf(list) ==
    IF list = <<>> THEN <<>>
    ELSE CounterAdd(CounterOf(SubSeq(list, 1, Len(list) - 1)), list[Len(list)])

RECURSIVE CounterTotal(_)
\* sum(counter.values())
CounterTotal(c) == IF c = <<>> THEN 0 ELSE c[1].n + CounterTotal(Tail(c))

\* Counter.most_common(n): by count, descending; equal counts keep the order
\* in which the keys were first inserted
MostCommon(c, n) ==
    LET pos(i) == 1 + Cardinality({j \in 1..Len(c) :
                         c[j].n > c[i].n \/ (c[j].n = c[i].n /\ j < i)})
        sorted == [q \in 1..Len(c) |-> c[CHOOSE i \in 1..Len(c) : pos(i) = q]]
    IN  SubSeq(sorted, 1, Min(n, Len(c)))

-----------------------------------------------------------------------------
(* analyze_flows *)

\* event.get(field, '').lower() raises AttributeError unless the member is
\* absent or a str
LowerRaises(v) == v.t \notin {"absent", "str"}

\* event.get(field, '').lower()
GetLower(v) == IF v.t = "str" THEN Lower(v.s) ELSE <<>>

\* the body of the loop of lines 139-151 for one checkout event: "true" on
\* return True, "continue" to go on with the next one, "raise"
CheckoutEventIgnoringFailure(e) ==
    IF LowerRaises(e.css) \/ LowerRaises(e.text) THEN "raise"
    ELSE IF Contains(GetLower(e.text), Chars_place_order) THEN "true"
    ELSE "continue"

CheckoutEvent(e) ==
    IF LowerRaises(e.css) \/ LowerRaises(e.text) THEN "raise"
    ELSE LET css == GetLower(e.css)
             text == GetLower(e.text)
         IN  IF Contains(css, Chars_error) \/ Contains(text, Chars_error)
             THEN "continue"
             ELSE IF Contains(css, Chars_cancel) \/ Contains(text, Chars_cancel)
             THEN "continue"
             ELSE IF Contains(text, Chars_place_order) THEN "true"
             ELSE "continue"

RECURSIVE CheckoutLoop(_)
CheckoutLoop(checkout_events) ==
    IF checkout_events = <<>> THEN "false"
    ELSE LET v == CheckoutEvent(checkout_events[1])
         IN  IF v = "continue" THEN CheckoutLoop(Tail(checkout_events)) ELSE v

IsCheckoutEvent(e) == e.path = Checkout

\* _is_successful_checkout: "true", "false" or "raise"
IsSuccessfulCheckout(session_events) ==
    CheckoutLoop(SelectSeq(session_events, IsCheckoutEvent))

PathSequence(session_events) ==
    [i \in 1..Len(session_events) |-> session_events[i].path]

\* the dict appended to successful_checkouts or abandoned_flows
FlowOf(session) ==
    LET seq == PathSequence(session.events)
    IN  [user_id |-> session.user_id, session_id |-> session.session_id,
         path_sequence |-> seq,
         last_path |-> IF seq # <<>> THEN seq[Len(seq)] ELSE Null,
         events |-> session.events]

IsSuccessfulFlow(flow) == IsSuccessfulCheckout(flow.events) = "true"
IsAbandonedFlow(flow) == IsSuccessfulCheckout(flow.events) # "true"

\* bool(value) of a JSON value
Truthy(v) ==
    CASE v.t = "str" -> v.s # <<>>
      [] v.t = "num" -> v.s # <<"0">>
      [] OTHER -> FALSE

IsTruthyLastPath(flow) == Truthy(flow.last_path)
\* the flows whose last_path enters abandonment_points (line 248)
ExitFlows(abandoned_flows) == SelectSeq(abandoned_flows, IsTruthyLastPath)

NonEmptySeq(seq) == seq # <<>>

\* the three findings of _analyze_flow_patterns, from its counters
FlowPatternFindings(successful_checkouts, abandoned_flows, path_sequences, successful_paths, abandonment_points, entry_points) ==
    (IF successful_checkouts = <<>> THEN <<>>
     ELSE <<[title |-> "Successful Purchase Flows",
             total_successful |-> Len(successful_checkouts),
             most_common_patterns |-> MostCommon(CounterOf(successful_paths), 3),
             conversion_rate |-> <<Len(successful_checkouts),
                                   Len(path_sequences)>>]>>)
    \o
    (IF abandoned_flows = <<>> THEN <<>>
     ELSE <<[title |-> "Flow Abandonment Patterns",
             total_abandoned |-> Len(abandoned_flows),
             common_exit_points |-> MostCommon(abandonment_points, 5),
             abandonment_rate |-> <<Len(abandoned_flows),
                                    Len(path_sequences)>>]>>)
    \o
    <<[title |-> "User Entry Points",
       top_entry_points |-> MostCommon(entry_points, 5)]>>

\* ' -> '.join(flow['path_sequence']) raises TypeError on a path that is no str
JoinRaises(successful_checkouts) ==
    \E i \in 1..Len(successful_checkouts) :
       \E j \in 1..Len(successful_checkouts[i].path_sequence) :
          successful_checkouts[i].path_sequence[j].t # "str"

SuccessfulPaths(successful_checkouts) ==
    [i \in 1..Len(successful_checkouts) |->
       Join(Chars_arrow,
            [j \in 1..Len(successful_checkouts[i].path_sequence) |->
               successful_checkouts[i].path_sequence[j].s])]

LastPaths(flow_list) == [i \in 1..Len(flow_list) |-> flow_list[i].last_path]

FirstPaths(seqs) == [i \in 1..Len(seqs) |-> seqs[i][1]]

FlowPatternsOutcome(successful_checkouts, abandoned_flows, path_sequences, abandonment_points, entry_points) ==
    [raised |-> FALSE,
     findings |-> FlowPatternFindings(successful_checkouts, abandoned_flows,
                     path_sequences, SuccessfulPaths(successful_checkouts),
                     abandonment_points, entry_points),
     abandonment_points |-> abandonment_points,
     entry_points |-> entry_points]

\* _analyze_flow_patterns: the findings it appends, the two counters before
\* truncation, and whether it raised
AnalyzeFlowPatterns(successful_checkouts, abandoned_flows, path_sequences) ==
    IF JoinRaises(successful_checkouts)
    THEN [raised |-> TRUE, findings |-> <<>>,
          abandonment_points |-> <<>>, entry_points |-> <<>>]
    ELSE FlowPatternsOutcome(successful_checkouts, abandoned_flows,
            path_sequences,
            CounterOf(LastPaths(ExitFlows(abandoned_flows))),
            CounterOf(FirstPaths(SelectSeq(path_sequences, NonEmptySeq))))

IsProductPath(v) == v.t = "str" /\ StartsWith(v.s, Chars_products)

\* the product paths of the grouped events
ProductsSeen(ss) ==
    {v \in UNION {Range(PathSequence(ss[k].events)) : k \in 1..Len(ss)} :
        IsProductPath(v)}

\* The orders in which a process may iterate a set of str: the order follows
\* the strings' hashes, which are salted per process, so any order of the
\* product paths is possible, and it is the same for every set of the process.
SetOrders(S) == {q \in [1..Cardinality(S) -> S] : \A x \in S : \E i \in DOMAIN q : q[i] = x}

\* what the loop of lines 164-168 and then the loop of lines 171-172 add to
\* the counter for one session: every viewed product path once
SessionProductsPerView(session_events, order) ==
    LET views == SelectSeq(session_events, LAMBDA e : IsProductPath(e.path))
    IN  [i \in 1..Len(views) |-> views[i].path]

SessionProducts(session_events, order) ==
    LET products_in_session ==
            {v \in Range(PathSequence(session_events)) : IsProductPath(v)}
    IN  SelectSeq(order, LAMBDA x : x \in products_in_session)

RECURSIVE ProductIncrements(_, _)
ProductIncrements(ss, order) ==
    IF ss = <<>> THEN <<>>
    ELSE SessionProducts(ss[1].events, order) \o ProductIncrements(Tail(ss), order)

\* sum(product_sessions.values())
TotalProductSessions(product_sessions) == CounterTotal(product_sessions)

\* path.startswith raises AttributeError on a path that is no str
StartsWithRaises(ss) ==
    \E k \in 1..Len(ss) : \E i \in 1..Len(ss[k].events) :
       ss[k].events[i].path.t # "str"

ProductFindings(product_sessions) ==
    IF product_sessions = <<>> THEN <<>>
    ELSE <<[title |-> "Most Consulted Products",
            total_product_sessions |-> TotalProductSessions(product_sessions),
            unique_products |-> Len(product_sessions),
            top_products |-> MostCommon(product_sessions, 10)]>>

ProductInsightsOutcome(product_sessions) ==
    [raised |-> FALSE, findings |-> ProductFindings(product_sessions),
     product_sessions |-> product_sessions]

\* _analyze_product_insights, with the sets iterated in `order`
AnalyzeProductInsights(ss, order) ==
    IF StartsWithRaises(ss)
    THEN [raised |-> TRUE, findings |-> <<>>, product_sessions |-> <<>>]
    ELSE ProductInsightsOutcome(CounterOf(ProductIncrements(ss, order)))

\* datetime - datetime raises TypeError when exactly one of them carries an
\* offset
SubtractRaises(a, b) ==
    ParseEventTime(a.event_time.s).aware # ParseEventTime(b.event_time.s).aware

\* (b - a).total_seconds()
SecondsBetween(a, b) ==
    ParseEventTime(b.event_time.s).secs - ParseEventTime(a.event_time.s).secs

PairRaises(ss) ==
    \E k \in 1..Len(ss) : \E i \in 1..(Len(ss[k].events) - 1) :
       SubtractRaises(ss[k].events[i], ss[k].events[i + 1])

SessionDurationsUpToThirtyMinutes(session_events) ==
    LET pairs == [i \in 1..(Len(session_events) - 1) |->
                    [key |-> session_events[i].path,
                     d |-> SecondsBetween(session_events[i], session_events[i + 1])]]
    IN  SelectSeq(pairs, LAMBDA x : 0 < x.d /\ x.d <= 1800)

\* the durations one session attributes, in order (lines 194-202)
SessionDurations(session_events) ==
    LET pairs == [i \in 1..(Len(session_events) - 1) |->
                    [key |-> session_events[i].path,
                     d |-> SecondsBetween(session_events[i], session_events[i + 1])]]
    IN  SelectSeq(pairs, LAMBDA x : 0 < x.d /\ x.d < 1800)

RECURSIVE AllDurations(_)
AllDurations(ss) ==
    IF ss = <<>> THEN <<>>
    ELSE SessionDurations(ss[1].events) \o AllDurations(Tail(ss))

Keys(items) == [i \in 1..Len(items) |-> items[i].key]

GroupedItems(items, keys, firsts) ==
    [q \in 1..Len(firsts) |->
       [key |-> firsts[q].key,
        items |-> [j \in 1..firsts[q].n |->
                     items[CHOOSE i \in 1..Len(items) :
                             /\ keys[i] = firsts[q].key
                             /\ Cardinality({h \in 1..i :
                                    keys[h] = firsts[q].key}) = j]]]]

\* a defaultdict(list) filled by d[keys[i]].append(items[i]) for i in order
GroupBy(items, keys) == GroupedItems(items, keys, CounterOf(keys))

RECURSIVE SumD(_)
SumD(items) == IF items = <<>> THEN 0 ELSE items[1].d + SumD(Tail(items))

\* page_avg_durations; an average is kept as the pair (total, n)
PageAverages(page_durations) ==
    [q \in 1..Len(page_durations) |->
       [path |-> page_durations[q].key,
        total |-> SumD(page_durations[q].items),
        n |-> Len(page_durations[q].items)]]

AverageGreater(a, b) == a.total * b.n > b.total * a.n

\* sorted(page_avg_durations.items(), key=lambda x: x[1], reverse=True)
SortedPages(pages) ==
    LET pos(i) == 1 + Cardinality({j \in 1..Len(pages) :
                         AverageGreater(pages[j], pages[i])
                         \/ (~AverageGreater(pages[i], pages[j]) /\ j < i)})
    IN  [q \in 1..Len(pages) |-> pages[CHOOSE i \in 1..Len(pages) : pos(i) = q]]

PageActivityFindings(sorted_pages) ==
    IF sorted_pages = <<>> THEN <<>>
    ELSE <<[title |-> "Pages with Longest Activity",
            total_pages_analyzed |-> Len(sorted_pages),
            longest_activity_pages |->
               SubSeq(sorted_pages, 1, Min(10, Len(sorted_pages)))]>>

PageDurations(durations) == GroupBy(durations, Keys(durations))

\* _analyze_page_activity
AnalyzePageActivity(ss) ==
    IF PairRaises(ss) THEN [raised |-> TRUE, findings |-> <<>>]
    ELSE [raised |-> FALSE,
          findings |-> PageActivityFindings(
                          SortedPages(PageAverages(PageDurations(AllDurations(ss)))))]

\* analyze_flows once the sessions are classified: lines 117-124
AnalyzeFlowsOutcome(classified, fp, pi, pa) ==
    IF fp.raised
    THEN [raised |-> TRUE, findings |-> <<>>, locals |-> classified]
    ELSE IF pi.raised
    THEN [raised |-> TRUE, findings |-> fp.findings,
          locals |-> [classified EXCEPT
                         !.abandonment_points = fp.abandonment_points,
                         !.entry_points = fp.entry_points,
                         !.reached = {"classified", "flow_patterns"}]]
    ELSE [raised |-> pa.raised,
          findings |-> IF pa.raised THEN fp.findings \o pi.findings
                       ELSE fp.findings \o pi.findings \o pa.findings,
          locals |-> [classified EXCEPT
                         !.abandonment_points = fp.abandonment_points,
                         !.entry_points = fp.entry_points,
                         !.product_sessions = pi.product_sessions,
                         !.reached =
                            IF pa.raised
                            THEN {"classified", "flow_patterns",
                                  "product_insights"}
                            ELSE {"classified", "flow_patterns",
                                  "product_insights", "page_activity"}]]

PathSequences(all_flows) ==
    [k \in 1..Len(all_flows) |-> all_flows[k].path_sequence]

Classified(successful_checkouts, abandoned_flows, path_sequences) ==
    [NoLocals EXCEPT !.successful_checkouts = successful_checkouts,
                     !.abandoned_flows = abandoned_flows,
                     !.path_sequences = path_sequences,
                     !.reached = {"classified"}]

AnalyzeClassified(ss, order, successful_checkouts, abandoned_flows, path_sequences) ==
    AnalyzeFlowsOutcome(
        Classified(successful_checkouts, abandoned_flows, path_sequences),
        AnalyzeFlowPatterns(successful_checkouts, abandoned_flows, path_sequences),
        AnalyzeProductInsights(ss, order),
        AnalyzePageActivity(ss))

\* the loop of lines 94-115 over the sessions, then lines 117-124
AnalyzeSessions(ss, order, all_flows) ==
    IF \E k \in 1..Len(ss) : IsSuccessfulCheckout(ss[k].events) = "raise"
    THEN [raised |-> TRUE, findings |-> <<>>, locals |-> NoLocals]
    ELSE AnalyzeClassified(ss, order,
            SelectSeq(all_flows, IsSuccessfulFlow),
            SelectSeq(all_flows, IsAbandonedFlow),
            PathSequences(all_flows))

AllFlows(ss) == [k \in 1..Len(ss) |-> FlowOf(ss[k])]

AnalyzeFlattened(ss, order) == AnalyzeSessions(ss, order, AllFlows(ss))

\* analyze_flows over the grouped sessions: the findings appended until it
\* returned or raised, and its local accumulators
AnalyzeFlowsResult(us, order) == AnalyzeFlattened(FlattenSessions(us), order)

\* self.flows.append(...) or self.anomalies.append(...), once for each finding
\* a sub-analysis produces
PrependFindings(list, findings) == findings \o list

AppendFindings(list, findings) == list \o findings

ClassifiedFlows(all_flows) ==
    Classified(SelectSeq(all_flows, IsSuccessfulFlow),
               SelectSeq(all_flows, IsAbandonedFlow),
               PathSequences(all_flows))

ClassifyOutcome(ss) ==
    IF \E k \in 1..Len(ss) : IsSuccessfulCheckout(ss[k].events) = "raise"
    THEN /\ locals' = locals
         /\ pc' = "raised_in_analyze_flows"
    ELSE /\ locals' = ClassifiedFlows(AllFlows(ss))
         /\ pc' = "_analyze_flow_patterns"

\* the loop of lines 94-115
ClassifySessions ==
    /\ pc = "analyze_flows"
    /\ ClassifyOutcome(FlattenSessions(user_sessions))
    /\ UNCHANGED <<response, line_no, events, valid_events, invalid_events,
                   user_sessions, flows, anomalies, twin>>

FlowPatternsReturn(fp) ==
    /\ flows' = AppendFindings(flows, fp.findings)
    /\ locals' = IF fp.raised THEN locals
                  ELSE [locals EXCEPT
                           !.abandonment_points = fp.abandonment_points,
                           !.entry_points = fp.entry_points,
                           !.reached = @ \cup {"flow_patterns"}]
    /\ pc' = IF fp.raised THEN "raised_in_analyze_flows"
             ELSE "_analyze_product_insights"

\* line 118
CallAnalyzeFlowPatterns ==
    /\ pc = "_analyze_flow_patterns"
    /\ FlowPatternsReturn(AnalyzeFlowPatterns(locals.successful_checkouts,
                             locals.abandoned_flows, locals.path_sequences))
    /\ UNCHANGED <<response, line_no, events, valid_events, invalid_events,
                   user_sessions, anomalies, twin>>

ProductInsightsReturn(pi) ==
    /\ flows' = AppendFindings(flows, pi.findings)
    /\ locals' = IF pi.raised THEN locals
                  ELSE [locals EXCEPT
                           !.product_sessions = pi.product_sessions,
                           !.reached = @ \cup {"product_insights"}]
    /\ pc' = IF pi.raised THEN "raised_in_analyze_flows"
             ELSE "_analyze_page_activity"

\* line 121
CallAnalyzeProductInsights ==
    /\ pc = "_analyze_product_insights"
    /\ \E order \in SetOrders(ProductsSeen(FlattenSessions(user_sessions))) :
          ProductInsightsReturn(
             AnalyzeProductInsights(FlattenSessions(user_sessions), order))
    /\ UNCHANGED <<response, line_no, events, valid_events, invalid_events,
                   user_sessions, anomalies, twin>>

PageActivityReturn(pa) ==
    /\ flows' = AppendFindings(flows, pa.findings)
    /\ locals' = IF pa.raised THEN locals
                  ELSE [locals EXCEPT !.reached = @ \cup {"page_activity"}]
    /\ pc' = IF pa.raised THEN "raised_in_analyze_flows" ELSE "detect_anomalies"

\* line 124
CallAnalyzePageActivity ==
    /\ pc = "_analyze_page_activity"
    /\ PageActivityReturn(AnalyzePageActivity(FlattenSessions(user_sessions)))
    /\ UNCHANGED <<response, line_no, events, valid_events, invalid_events,
                   user_sessions, anomalies, twin>>

\* analyze_flows, one step for its loop and one for each call it makes
AnalyzeFlows ==
    \/ ClassifySessions
    \/ CallAnalyzeFlowPatterns
    \/ CallAnalyzeProductInsights
    \/ CallAnalyzePageActivity

-----------------------------------------------------------------------------
(* detect_anomalies *)

SessionGapsFromFiveMinutes(session) ==
    LET es == session.events
        pairs == [i \in 1..(Len(es) - 1) |->
                    [user_id |-> session.user_id,
                     session_id |-> session.session_id,
                     gap_seconds |-> SecondsBetween(es[i], es[i + 1]),
                     stuck_on_page |-> es[i].path,
                     next_page |-> es[i + 1].path]]
    IN  SelectSeq(pairs, LAMBDA g : g.gap_seconds >= 300)

\* the gaps one session records, in order (lines 287-301); gap_minutes is
\* kept as gap_seconds
SessionGaps(session) ==
    LET es == session.events
        pairs == [i \in 1..(Len(es) - 1) |->
                    [user_id |-> session.user_id,
                     session_id |-> session.session_id,
                     gap_seconds |-> SecondsBetween(es[i], es[i + 1]),
                     stuck_on_page |-> es[i].path,
                     next_page |-> es[i + 1].path]]
    IN  SelectSeq(pairs, LAMBDA g : g.gap_seconds > 300)

RECURSIVE AllGaps(_)
AllGaps(ss) ==
    IF ss = <<>> THEN <<>> ELSE SessionGaps(ss[1]) \o AllGaps(Tail(ss))

\* long_gaps.sort(key=lambda x: x['gap_minutes'], reverse=True)
SortedGaps(gaps) ==
    LET pos(i) == 1 + Cardinality({j \in 1..Len(gaps) :
                         gaps[j].gap_seconds > gaps[i].gap_seconds
                         \/ (gaps[j].gap_seconds = gaps[i].gap_seconds /\ j < i)})
    IN  [q \in 1..Len(gaps) |-> gaps[CHOOSE i \in 1..Len(gaps) : pos(i) = q]]

RECURSIVE SumGaps(_)
SumGaps(gaps) ==
    IF gaps = <<>> THEN 0 ELSE gaps[1].gap_seconds + SumGaps(Tail(gaps))

StuckPages(gaps) == [i \in 1..Len(gaps) |-> gaps[i].stuck_on_page]

TimeGapFindings(long_gaps, page_gaps, sorted) ==
    IF long_gaps = <<>> THEN <<>>
    ELSE <<[title |-> "User Confusion / Long Delays",
            severity |-> IF Len(long_gaps) > 10 THEN "High" ELSE "Medium",
            total_instances |-> Len(long_gaps),
            average_gap |-> <<SumGaps(long_gaps), Len(long_gaps)>>,
            longest_gap |-> sorted[1].gap_seconds,
            page_specific_issues |-> page_gaps,
            examples |-> SubSeq(sorted, 1, Min(3, Len(sorted)))]>>

TimeGapsOutcome(long_gaps) ==
    [raised |-> FALSE,
     findings |-> TimeGapFindings(long_gaps,
                     GroupBy(long_gaps, StuckPages(long_gaps)),
                     SortedGaps(long_gaps))]

\* _detect_time_gaps
DetectTimeGaps(ss) ==
    IF PairRaises(ss) THEN [raised |-> TRUE, findings |-> <<>>]
    ELSE TimeGapsOutcome(AllGaps(ss))

ErrorKeywords ==
    << <<"e","r","r","o","r">>, <<"4","0","4">>,
       <<"t","i","m","e","o","u","t">>, <<"f","a","i","l","e","d">>,
       <<"i","n","v","a","l","i","d">>, <<"m","i","s","s","i","n","g">> >>

HasErrorKeywordInText(e) ==
    \E q \in 1..Len(ErrorKeywords) :
       Contains(GetLower(e.text), ErrorKeywords[q])

\* any(keyword in css or keyword in text for keyword in error_keywords)
HasErrorKeyword(e) ==
    \E q \in 1..Len(ErrorKeywords) :
       \/ Contains(GetLower(e.css), ErrorKeywords[q])
       \/ Contains(GetLower(e.text), ErrorKeywords[q])

\* event.get(field, 'N/A')
GetOrNA(v) == IF v.t = "absent" THEN JStr(<<"N","/","A">>) ELSE v

ErrorInfo(event) ==
    [event |-> event,
     error_type |-> "CSS/Text contains error keywords",
     text |-> GetOrNA(event.text),
     css |-> GetOrNA(event.css)]

ErrorInfos(matching) == [i \in 1..Len(matching) |-> ErrorInfo(matching[i])]

Paths(matching) == [i \in 1..Len(matching) |-> matching[i].path]

ErrorFindings(error_events, page_errors) ==
    IF error_events = <<>> THEN <<>>
    ELSE <<[title |-> "Technical Errors",
            severity |-> "High",
            total_errors |-> Len(error_events),
            page_specific_errors |-> page_errors]>>

ErrorPatternsOutcome(matching) ==
    [raised |-> FALSE,
     findings |-> ErrorFindings(ErrorInfos(matching),
                                GroupBy(ErrorInfos(matching), Paths(matching)))]

\* _detect_error_patterns, over self.events
DetectErrorPatterns(evs) ==
    IF \E i \in 1..Len(evs) : LowerRaises(evs[i].css) \/ LowerRaises(evs[i].text)
    THEN [raised |-> TRUE, findings |-> <<>>]
    ELSE ErrorPatternsOutcome(SelectSeq(evs, HasErrorKeyword))

RECURSIVE SumSeq(_)
SumSeq(xs) == IF xs = <<>> THEN 0 ELSE xs[1] + SumSeq(Tail(xs))

Squares(xs) == [i \in 1..Len(xs) |-> xs[i] * xs[i]]

ExceedsOneDeviation(count, n, S, Q) ==
    IF n > 1
    THEN /\ n * count - S > 0
         /\ (n * count - S) * (n * count - S) * (n - 1) > n * (n * Q - S * S)
    ELSE count > 2 * S

\* count > mean + 2 * stdev for n > 1 values of sum S and sum of squares Q,
\* where stdev ** 2 = (n*Q - S*S) / (n*(n-1)); count > 2 * mean for one value
ExceedsStatistics(count, n, S, Q) ==
    IF n > 1
    THEN /\ n * count - S > 0
         /\ (n * count - S) * (n * count - S) * (n - 1) > 4 * n * (n * Q - S * S)
    ELSE count > 2 * S

\* len(events) > threshold (lines 370-376)
ExceedsThreshold(count, session_lengths) ==
    ExceedsStatistics(count, Len(session_lengths), SumSeq(session_lengths),
                      SumSeq(Squares(session_lengths)))

\* _calculate_session_duration, in seconds
SessionDurationSeconds(session_events) ==
    IF Len(session_events) < 2 THEN 0
    ELSE SecondsBetween(session_events[1], session_events[Len(session_events)])

SessionLengths(ss) == [k \in 1..Len(ss) |-> Len(ss[k].events)]

UnusualSession(session) ==
    [user_id |-> session.user_id,
     session_id |-> session.session_id,
     event_count |-> Len(session.events),
     duration_seconds |-> SessionDurationSeconds(session.events)]

UnusualFindings(session_lengths, flagged) ==
    IF flagged = <<>> THEN <<>>
    ELSE <<[title |-> "Unusual Session Activity",
            severity |-> "Medium",
            average_session_length |-> <<SumSeq(session_lengths),
                                         Len(session_lengths)>>,
            unusual_sessions |->
               [i \in 1..Min(5, Len(flagged)) |-> UnusualSession(flagged[i])]]>>

FlaggedSessions(ss, session_lengths) ==
    SelectSeq(ss, LAMBDA x : ExceedsThreshold(Len(x.events), session_lengths))

\* _detect_unusual_behaviors; it is reached only when _detect_time_gaps did not
\* raise, so no subtraction in _calculate_session_duration raises either
DetectUnusualBehaviors(ss) ==
    UnusualFindings(SessionLengths(ss), FlaggedSessions(ss, SessionLengths(ss)))

DetectAnomaliesOutcome(ss, tg, ep) ==
    IF tg.raised THEN [raised |-> TRUE, findings |-> <<>>]
    ELSE IF ep.raised THEN [raised |-> TRUE, findings |-> tg.findings]
    ELSE [raised |-> FALSE,
          findings |-> tg.findings \o ep.findings \o DetectUnusualBehaviors(ss)]

DetectFlattened(ss, evs) ==
    DetectAnomaliesOutcome(ss, DetectTimeGaps(ss), DetectErrorPatterns(evs))

\* detect_anomalies: the findings appended until it returned or raised
DetectAnomaliesResult(us, evs) == DetectFlattened(FlattenSessions(us), evs)

DetectorReturn(d, next_pc) ==
    /\ anomalies' = AppendFindings(anomalies, d.findings)
    /\ pc' = IF d.raised THEN "raised_in_detect_anomalies" ELSE next_pc

\* line 274
CallDetectTimeGaps ==
    /\ pc = "detect_anomalies"
    /\ DetectorReturn(DetectTimeGaps(FlattenSessions(user_sessions)),
                      "_detect_error_patterns")
    /\ UNCHANGED <<response, line_no, events, valid_events, invalid_events,
                   user_sessions, flows, locals, twin>>

\* line 275
CallDetectErrorPatterns ==
    /\ pc = "_detect_error_patterns"
    /\ DetectorReturn(DetectErrorPatterns(events), "_detect_unusual_behaviors")
    /\ UNCHANGED <<response, line_no, events, valid_events, invalid_events,
                   user_sessions, flows, locals, twin>>

\* line 276
CallDetectUnusualBehaviors ==
    /\ pc = "_detect_unusual_behaviors"
    /\ DetectorReturn(
          [raised |-> FALSE,
           findings |-> DetectUnusualBehaviors(FlattenSessions(user_sessions))],
          "done")
    /\ UNCHANGED <<response, line_no, events, valid_events, invalid_events,
                   user_sessions, flows, locals, twin>>

\* detect_anomalies, one step for each call it makes
DetectAnomalies ==
    \/ CallDetectTimeGaps
    \/ CallDetectErrorPatterns
    \/ CallDetectUnusualBehaviors

-----------------------------------------------------------------------------
(* run_analysis *)

IsLoaded(line) ==
    line.kind \notin {"blank", "malformed"} /\ IsValidEvent(line) = "true"

LoadRaises(resp) ==
    \E i \in 1..Len(resp) :
       /\ resp[i].kind \notin {"blank", "malformed"}
       /\ IsValidEvent(resp[i]) = "TypeError"

RunOutcome(af, da) ==
    IF af.raised
    THEN [ran |-> TRUE, flows |-> af.findings, anomalies |-> <<>>,
          raised |-> TRUE]
    ELSE [ran |-> TRUE, flows |-> af.findings, anomalies |-> da.findings,
          raised |-> da.raised]

RunGrouped(us, evs, order) ==
    RunOutcome(AnalyzeFlowsResult(us, order), DetectAnomaliesResult(us, evs))

RunSorted(evs, order) == RunGrouped(GroupEvents(evs), evs, order)

RunLoaded(loaded, order) ==
    RunSorted(IF loaded = <<>> THEN loaded ELSE SortEvents(loaded), order)

\* run_analysis of a fresh analyzer on the lines `resp`, in a process whose
\* sets iterate in `order`: the flows and anomalies it ends with
RunAnalysis(resp, order) ==
    IF LoadRaises(resp)
    THEN [ran |-> TRUE, flows |-> <<>>, anomalies |-> <<>>, raised |-> TRUE]
    ELSE RunLoaded(SelectSeq(resp, IsLoaded), order)

\* the same response analysed once more, by a fresh analyzer in another process
TwinRunAnalysis ==
    /\ pc = "done"
    /\ ~twin.ran
    /\ \E order \in SetOrders(ProductsSeen(FlattenSessions(user_sessions))) :
          twin' = RunAnalysis(response, order)
    /\ UNCHANGED <<response, line_no, events, valid_events, invalid_events,
                   user_sessions, flows, anomalies, locals, pc>>

-----------------------------------------------------------------------------

Next ==
    \/ LoadLine
    \/ LoadReturn
    \/ ProcessEvents
    \/ AnalyzeFlows
    \/ DetectAnomalies
    \/ TwinRunAnalysis

Spec == Init /\ [][Next]_vars

SpecLoad == InitLoad /\ [][Next]_vars

SpecMany == InitMany /\ [][Next]_vars

SpecErrors == InitErrors /\ [][Next]_vars

SpecAccepted == InitAccepted /\ [][Next]_vars

-----------------------------------------------------------------------------
(* Views of the state used by the properties *)

Count(seq, x) == Cardinality({i \in 1..Len(seq) : seq[i] = x})

RECURSIVE SumLen(_)
SumLen(ss) == IF ss = <<>> THEN 0 ELSE Len(ss[1].events) + SumLen(Tail(ss))

LoadReturned == pc \notin {"load_data", "raised_in_load_data"}

Grouped == pc \notin {"load_data", "raised_in_load_data", "process_events"}

NonBlank == {i \in 1..Len(response) : response[i].kind # "blank"}

-----------------------------------------------------------------------------
(* C1 *)

WellFormedTimes == {T_1000_Z, T_1000_Utc, T_1100_Plus2, T_1005_Z, T_1030_Z}

C1_Present(v) == v.t \notin {"absent", "null"}

\* the validity the specification states for a structured record
C1_Accepted(line) ==
    /\ line.kind = "object"
    /\ C1_Present(line.user_id) /\ C1_Present(line.session_id)
    /\ C1_Present(line.event_time) /\ C1_Present(line.path)
    /\ line.event_time \in WellFormedTimes

\* C1: _is_valid_event accepts a record iff its four required fields are
\* present and non-null and its event_time is an ISO-8601 instant; once
\* load_data has returned, self.events holds exactly the accepted records, in
\* input order.
C1_EventsAreTheAcceptedRecords ==
    /\ \A i \in 1..Len(response) :
          response[i].kind = "object" =>
             ((IsValidEvent(response[i]) = "true") <=> C1_Accepted(response[i]))
    /\ (pc = "process_events") =>
          events = SelectSeq(response, C1_Accepted)

C1_Witness ==
    /\ pc = "process_events"
    /\ Len(events) = 2
    /\ events[1].event_time = T_1005_Z /\ events[2].event_time = T_1000_Utc
    /\ \E i \in 1..Len(response) :
          response[i].kind = "object" /\ response[i].event_time = T_BadMonth

-----------------------------------------------------------------------------
(* C2 *)

\* C2: load_data never aborts because of the content of a line: every
\* non-blank line is either accepted or counted as rejected, and when it
\* returns valid + rejected is the number of non-blank lines.
C2_EveryLineHandled ==
    /\ pc # "raised_in_load_data"
    /\ (pc = "load_data") =>
          valid_events + invalid_events
             = Cardinality({i \in NonBlank : i < line_no})
    /\ LoadReturned =>
          valid_events + invalid_events = Cardinality(NonBlank)

-----------------------------------------------------------------------------
(* C3 *)

Instant(e) == ParseEventTime(e.event_time.s).secs

\* C3: after process_events the events of every session are in
\* non-decreasing order of the instant their event_time denotes.
C3_SessionsChronological ==
    Grouped =>
       \A k \in 1..Len(FlattenSessions(user_sessions)) :
          LET es == FlattenSessions(user_sessions)[k].events
          IN  \A i \in 1..(Len(es) - 1) : Instant(es[i]) <= Instant(es[i + 1])

-----------------------------------------------------------------------------
(* C4 *)

\* C4: after process_events every validated event is in exactly one session,
\* the one keyed by its own (user_id, session_id): the session lengths sum to
\* len(events), each event occurs in its session as often as it was read and
\* nowhere else, and a session_id under two users is two sessions.
C4_GroupingPartitionsEvents ==
    Grouped =>
       LET ss == FlattenSessions(user_sessions)
           accepted == SelectSeq(response, C1_Accepted)
       IN  /\ SumLen(ss) = Len(events)
           /\ Len(events) = Len(accepted)
           /\ \A k, l \in 1..Len(ss) :
                 (ss[k].user_id = ss[l].user_id
                    /\ ss[k].session_id = ss[l].session_id) => k = l
           /\ \A e \in Range(accepted) :
                 \A k \in 1..Len(ss) :
                    Count(ss[k].events, e) =
                       IF ss[k].user_id = e.user_id
                             /\ ss[k].session_id = e.session_id
                       THEN Count(accepted, e) ELSE 0
           /\ \A k \in 1..Len(ss) : Range(ss[k].events) \subseteq Range(accepted)

C4_Witness ==
    /\ Grouped
    /\ Len(events) = 3
    /\ \E i, j \in 1..3 :
          /\ events[i].session_id = events[j].session_id
          /\ events[i].user_id # events[j].user_id
    /\ \E i, j \in 1..3 : i # j /\ events[i] = events[j]

-----------------------------------------------------------------------------
(* C5 *)

\* a checkout event that carries the success indicator and no failure one
C5_Qualifies(e) ==
    /\ e.path = Checkout
    /\ ~Contains(GetLower(e.css), Chars_error)
    /\ ~Contains(GetLower(e.text), Chars_error)
    /\ ~Contains(GetLower(e.css), Chars_cancel)
    /\ ~Contains(GetLower(e.text), Chars_cancel)
    /\ Contains(GetLower(e.text), Chars_place_order)

C5_InList(list, session) ==
    Cardinality({i \in 1..Len(list) :
                    /\ list[i].user_id = session.user_id
                    /\ list[i].session_id = session.session_id
                    /\ list[i].events = session.events})

\* C5: a session is successful iff one of its events qualifies, whatever its
\* other checkout events are, and analyze_flows puts every session in exactly
\* one of successful_checkouts and abandoned_flows accordingly.
C5_OneQualifyingEventSuffices ==
    ("classified" \in locals.reached) =>
       \A k \in 1..Len(FlattenSessions(user_sessions)) :
          LET session == FlattenSessions(user_sessions)[k]
              qualifies == \E i \in 1..Len(session.events) :
                              C5_Qualifies(session.events[i])
          IN  /\ (IsSuccessfulCheckout(session.events) = "true") <=> qualifies
              /\ C5_InList(locals.successful_checkouts, session)
                    = (IF qualifies THEN 1 ELSE 0)
              /\ C5_InList(locals.abandoned_flows, session)
                    = (IF qualifies THEN 0 ELSE 1)

C5_Witness ==
    /\ "classified" \in locals.reached
    /\ Len(locals.successful_checkouts) = 1
    /\ LET es == locals.successful_checkouts[1].events
       IN  /\ Len(es) = 3
           /\ \A i \in 1..3 : es[i].path = Checkout
           /\ ~C5_Qualifies(es[1]) /\ C5_Qualifies(es[2]) /\ ~C5_Qualifies(es[3])

-----------------------------------------------------------------------------
(* C6 *)

\* C6: before truncation the entry-point counts sum to the number of
\* non-empty sessions and the exit-point counts to the number of non-empty
\* abandoned sessions, whatever path the events carry.
C6_CountsSumToSessions ==
    ("flow_patterns" \in locals.reached) =>
       /\ CounterTotal(locals.entry_points)
             = Cardinality({k \in 1..Len(locals.path_sequences) :
                               locals.path_sequences[k] # <<>>})
       /\ CounterTotal(locals.abandonment_points)
             = Cardinality({k \in 1..Len(locals.abandoned_flows) :
                               locals.abandoned_flows[k].events # <<>>})

-----------------------------------------------------------------------------
(* C7 *)

\* C7: with no valid event, process_events, analyze_flows and
\* detect_anomalies complete without raising and leave flows and anomalies
\* empty.
C7_EmptyInputLeavesNoFindings ==
    (LoadReturned /\ events = <<>>) =>
       /\ pc \notin {"raised_in_analyze_flows", "raised_in_detect_anomalies"}
       /\ flows = <<>>
       /\ anomalies = <<>>

-----------------------------------------------------------------------------
(* C8 *)

\* C8: two fresh analyzers given the same input end with the same flows and
\* anomalies, whatever order their sets iterate in.
C8_TwoRunsAgree ==
    (pc = "done" /\ twin.ran) =>
       (twin.flows = flows /\ twin.anomalies = anomalies)

-----------------------------------------------------------------------------
(* C9 *)

C9_ProductPaths == {Product1, Product2}

C9_ProductFindings ==
    {i \in 1..Len(flows) : flows[i].title = "Most Consulted Products"}

\* C9: total_product_sessions is the number of sessions that viewed at least
\* one product path, and unique_products the number of distinct product paths.
C9_TotalCountsSessions ==
    \A i \in C9_ProductFindings :
       LET ss == FlattenSessions(user_sessions)
       IN  /\ flows[i].total_product_sessions
                 = Cardinality({k \in 1..Len(ss) :
                      Range(PathSequence(ss[k].events)) \cap C9_ProductPaths # {}})
           /\ flows[i].unique_products
                 = Cardinality(UNION {Range(PathSequence(ss[k].events)) :
                                         k \in 1..Len(ss)} \cap C9_ProductPaths)

-----------------------------------------------------------------------------
(* C10 *)

C10_Paths == {Home, Checkout, Product1, Product2, ProductsIndex, EmptyPath}

CounterGet(c, k) ==
    IF \E i \in 1..Len(c) : c[i].key = k
    THEN c[CHOOSE i \in 1..Len(c) : c[i].key = k].n
    ELSE 0

\* C10: the product counter's value for a product path is the number of
\* sessions with at least one event on it, and no other path is counted.
C10_OncePerSessionPerProduct ==
    ("product_insights" \in locals.reached) =>
       LET ss == FlattenSessions(user_sessions)
       IN  /\ \A p \in C10_Paths :
                 CounterGet(locals.product_sessions, p) =
                    IF p \in {Product1, Product2}
                    THEN Cardinality({k \in 1..Len(ss) :
                            p \in Range(PathSequence(ss[k].events))})
                    ELSE 0
           /\ \A i \in 1..Len(locals.product_sessions) :
                 locals.product_sessions[i].key \in C10_Paths

C10_Witness ==
    /\ "product_insights" \in locals.reached
    /\ CounterGet(locals.product_sessions, Product1) = 1
    /\ \E k \in 1..Len(FlattenSessions(user_sessions)) :
          LET es == FlattenSessions(user_sessions)[k].events
          IN  Cardinality({i \in 1..Len(es) : es[i].path = Product1}) = 2
    /\ \E i \in 1..Len(events) : events[i].path = ProductsIndex

-----------------------------------------------------------------------------
(* C11 *)

RECURSIVE Flatten(_)
\* the lists of a defaultdict(list), one after the other
Flatten(groups) ==
    IF groups = <<>> THEN <<>> ELSE groups[1].items \o Flatten(Tail(groups))

Findings(list, title) == {i \in 1..Len(list) : list[i].title = title}

\* the positions (session k, event i) that have a next event in their session
AdjacentPairs(ss) ==
    UNION {{<<k, i>> : i \in 1..(Len(ss[k].events) - 1)} : k \in 1..Len(ss)}

\* the gap record the pair at p is to leave, were it a gap
C11_Record(ss, p) ==
    [user_id |-> ss[p[1]].user_id, session_id |-> ss[p[1]].session_id,
     gap_seconds |-> Instant(ss[p[1]].events[p[2] + 1])
                     - Instant(ss[p[1]].events[p[2]]),
     stuck_on_page |-> ss[p[1]].events[p[2]].path,
     next_page |-> ss[p[1]].events[p[2] + 1].path]

C11_Pairs(ss) == {[at |-> p, gap |-> C11_Record(ss, p)] : p \in AdjacentPairs(ss)}

\* the adjacent event pairs more than 300 s apart, each with its record
C11_LongPairs ==
    {x \in C11_Pairs(FlattenSessions(user_sessions)) : x.gap.gap_seconds > 300}

C11_FindingOk(f, long, recorded) ==
    /\ Len(recorded) = Cardinality(long)
    /\ \A x \in long :
          Count(recorded, x.gap) = Cardinality({y \in long : y.gap = x.gap})
    /\ f.total_instances = Cardinality(long)
    /\ f.severity = (IF Cardinality(long) > 10 THEN "High" ELSE "Medium")
    /\ Len(f.examples) = Min(3, Cardinality(long))
    /\ \A i \in 1..(Len(f.examples) - 1) :
          f.examples[i].gap_seconds >= f.examples[i + 1].gap_seconds
    /\ \A i \in 1..Len(f.examples) :
          Count(f.examples, f.examples[i]) <= Count(recorded, f.examples[i])
    /\ \A x \in long :
          Cardinality({i \in 1..Len(f.examples) :
                          f.examples[i].gap_seconds >= x.gap.gap_seconds})
             = Min(3, Cardinality({y \in long :
                          y.gap.gap_seconds >= x.gap.gap_seconds}))

C11_FindingsOk(found, long) ==
    /\ Cardinality(found) = (IF long = {} THEN 0 ELSE 1)
    /\ \A i \in found :
          C11_FindingOk(anomalies[i], long,
                        Flatten(anomalies[i].page_specific_issues))

\* C11: when _detect_time_gaps returns, it has recorded one gap for every
\* adjacent event pair of a session more than 300 s apart and none for a pair
\* exactly 300 s apart, with the earlier path as stuck_on_page and the later
\* as next_page; the finding is there iff there is a gap, is High iff there
\* are more than 10 gaps and Medium otherwise, counts the gaps in
\* total_instances and shows the (up to) 3 longest, the longest first.
C11_GapsAreThePairsOverFiveMinutes ==
    (pc = "done") =>
       C11_FindingsOk(Findings(anomalies, "User Confusion / Long Delays"),
                      C11_LongPairs)

C11_Witness ==
    /\ pc = "done"
    /\ \E i \in Findings(anomalies, "User Confusion / Long Delays") :
          /\ anomalies[i].severity = "High"
          /\ anomalies[i].total_instances = 11
          /\ Len(anomalies[i].examples) = 3
          /\ anomalies[i].examples[1].gap_seconds = 1800
          /\ anomalies[i].examples[3].gap_seconds = 1800

-----------------------------------------------------------------------------
(* C12 *)

C12_Pair(ss, p) ==
    [at |-> p, path |-> ss[p[1]].events[p[2]].path,
     d |-> Instant(ss[p[1]].events[p[2] + 1]) - Instant(ss[p[1]].events[p[2]])]

C12_Pairs(ss) == {C12_Pair(ss, p) : p \in AdjacentPairs(ss)}

\* the adjacent pairs of one session whose delta is to be attributed
C12_Attributed ==
    {x \in C12_Pairs(FlattenSessions(user_sessions)) : 0 < x.d /\ x.d < 1800}

RECURSIVE C12_SumDelta(_)
C12_SumDelta(pairs) ==
    IF pairs = {} THEN 0
    ELSE LET x == CHOOSE y \in pairs : TRUE
         IN  x.d + C12_SumDelta(pairs \ {x})

\* what each page received: the number and the sum of its durations
C12_Received(attributed) ==
    {[path |-> path,
      n |-> Cardinality({x \in attributed : x.path = path}),
      total |-> C12_SumDelta({x \in attributed : x.path = path})] :
        path \in {x.path : x \in attributed}}

\* the average of a is not below the average of b
C12_NotBelow(a, b) == a.total * b.n >= b.total * a.n

C12_FindingOk(f, reported, pages) ==
    /\ f.total_pages_analyzed = Cardinality(pages)
    /\ Len(reported) = Min(10, Cardinality(pages))
    /\ \A i \in 1..Len(reported) :
          /\ [path |-> reported[i].path, n |-> reported[i].n,
               total |-> reported[i].total] \in pages
          /\ \A j \in 1..Len(reported) :
                reported[i].path = reported[j].path => i = j
    /\ \A i \in 1..(Len(reported) - 1) :
          C12_NotBelow(reported[i], reported[i + 1])
    /\ \A page \in pages :
          (\A i \in 1..Len(reported) : reported[i].path # page.path) =>
             C12_NotBelow(reported[Len(reported)], page)

C12_FindingsOk(found, pages) ==
    /\ Cardinality(found) = (IF pages = {} THEN 0 ELSE 1)
    /\ \A i \in found :
          C12_FindingOk(flows[i], flows[i].longest_activity_pages, pages)

\* C12: when _analyze_page_activity returns, a page's durations are the
\* deltas of the adjacent pairs of one session that start on it and satisfy
\* 0 < delta < 1800 s, and no others; the finding is there iff some page has
\* a duration, counts the pages that have one, and reports at most 10 of
\* them, those of highest average, in descending order of average.
C12_DwellTimesAreTheShortDeltas ==
    ("page_activity" \in locals.reached) =>
       C12_FindingsOk(Findings(flows, "Pages with Longest Activity"),
                      C12_Received(C12_Attributed))

C12_Witness ==
    /\ "page_activity" \in locals.reached
    /\ \E i \in Findings(flows, "Pages with Longest Activity") :
          /\ flows[i].total_pages_analyzed = 11
          /\ Len(flows[i].longest_activity_pages) = 10
          /\ flows[i].longest_activity_pages[1].total = 420
          /\ flows[i].longest_activity_pages[10].total = 300

-----------------------------------------------------------------------------
(* C13 *)

C13_Keywords ==
    { <<"e","r","r","o","r">>, <<"4","0","4">>, <<"t","i","m","e","o","u","t">>,
      <<"f","a","i","l","e","d">>, <<"i","n","v","a","l","i","d">>,
      <<"m","i","s","s","i","n","g">> }

C13_Lowered(v) == IF v.t = "str" THEN Lower(v.s) ELSE <<>>

\* the lower-cased css or text of e contains a keyword
C13_Matches(e) ==
    \E kw \in C13_Keywords :
       Contains(C13_Lowered(e.css), kw) \/ Contains(C13_Lowered(e.text), kw)

C13_Matching == {i \in 1..Len(events) : C13_Matches(events[i])}

C13_RecordsOf(records, e) ==
    Cardinality({j \in 1..Len(records) : records[j].event = e})

C13_FindingOk(f) ==
    LET groups == f.page_specific_errors
        records == Flatten(groups)
    IN  /\ f.severity = "High"
        /\ f.total_errors = Cardinality(C13_Matching)
        /\ Len(records) = f.total_errors
        /\ \A i \in 1..Len(events) :
              C13_RecordsOf(records, events[i]) =
                 IF i \in C13_Matching
                 THEN Cardinality({j \in 1..Len(events) : events[j] = events[i]})
                 ELSE 0
        /\ \A g \in 1..Len(groups) :
              /\ groups[g].items # <<>>
              /\ \A j \in 1..Len(groups[g].items) :
                    groups[g].items[j].event.path = groups[g].key
              /\ \A h \in 1..Len(groups) : groups[h].key = groups[g].key => h = g

\* C13: when _detect_error_patterns returns, it has made one record for every
\* event of the whole event list whose lower-cased css or text contains one
\* of the six keywords, however many it contains, and none for another
\* event; the finding is there iff there is a record, is High, and its lists
\* per path hold every record once, under the path of its event, so their
\* sizes sum to total_errors.
C13_OneRecordPerMatchingEvent ==
    (pc = "done") =>
       LET found == Findings(anomalies, "Technical Errors")
       IN  /\ Cardinality(found) = (IF C13_Matching = {} THEN 0 ELSE 1)
           /\ \A i \in found : C13_FindingOk(anomalies[i])

C13_Witness ==
    /\ pc = "done"
    /\ Len(events) = 3
    /\ \E i \in 1..3 : events[i].text = Text_Error404
    /\ \E i \in 1..3 : events[i].css = Css_Timeout /\ events[i].user_id = U2
    /\ \E i \in 1..3 : events[i].text = Text_TimeOut
    /\ \E i \in Findings(anomalies, "Technical Errors") :
          /\ anomalies[i].total_errors = 2
          /\ Len(anomalies[i].page_specific_errors) = 1
          /\ Len(anomalies[i].page_specific_errors[1].items) = 2

-----------------------------------------------------------------------------
(* C14 *)

C14_Lengths ==
    [k \in 1..Len(FlattenSessions(user_sessions)) |->
       Len(FlattenSessions(user_sessions)[k].events)]

\* the sum of (n * x - S) ** 2 over the n lengths x, S being their sum
C14_SquaredDeviations(lengths, n, S) ==
    SumSeq([k \in 1..n |-> (n * lengths[k] - S) * (n * lengths[k] - S)])

\* c > mean + 2 * s, where s ** 2 is the squared deviations from the mean
\* summed and divided by n - 1; with every term multiplied by n:
\* n*c - S > 2 * sqrt(D / (n - 1)), D the sum of (n*x - S) ** 2
C14_Exceeds(c, n, S, D) ==
    IF n = 1 THEN c > 2 * S
    ELSE /\ n * c - S > 0
         /\ (n * c - S) * (n * c - S) * (n - 1) > 4 * D

C14_FlaggedAmong(lengths, n, S, D) ==
    {k \in 1..n : C14_Exceeds(lengths[k], n, S, D)}

C14_FlaggedOf(lengths, n, S) ==
    C14_FlaggedAmong(lengths, n, S, C14_SquaredDeviations(lengths, n, S))

C14_Flagged == C14_FlaggedOf(C14_Lengths, Len(C14_Lengths), SumSeq(C14_Lengths))

C14_FindingOk(f) ==
    LET ss == FlattenSessions(user_sessions)
        shown == f.unusual_sessions
    IN  /\ f.severity = "Medium"
        /\ Len(shown) = Min(5, Cardinality(C14_Flagged))
        /\ \A i \in 1..Len(shown) :
              /\ \E k \in C14_Flagged :
                    /\ shown[i].user_id = ss[k].user_id
                    /\ shown[i].session_id = ss[k].session_id
                    /\ shown[i].event_count = Len(ss[k].events)
              /\ \A j \in 1..Len(shown) :
                    (shown[i].user_id = shown[j].user_id
                       /\ shown[i].session_id = shown[j].session_id) => i = j

\* C14: when detect_anomalies returns, the sessions flagged are those whose
\* event count is strictly above mean + 2 * sample standard deviation of all
\* session event counts (above 2 * mean when there is one session); the
\* 'Unusual Session Activity' finding is there iff a session is flagged, is
\* Medium and shows at most 5 of the flagged sessions; one session alone is
\* never flagged.
C14_FlaggedAboveTwoDeviations ==
    (pc = "done") =>
       LET found == Findings(anomalies, "Unusual Session Activity")
       IN  /\ Cardinality(found) = (IF C14_Flagged = {} THEN 0 ELSE 1)
           /\ \A i \in found : C14_FindingOk(anomalies[i])
           /\ Len(C14_Lengths) = 1 => found = {}

C14_Witness ==
    /\ pc = "done"
    /\ Cardinality(C14_Flagged) = 6
    /\ \E i \in Findings(anomalies, "Unusual Session Activity") :
          Len(anomalies[i].unusual_sessions) = 5

-----------------------------------------------------------------------------
(* C15 *)

\* position at which the key x is first encountered in seq
C15_First(seq, x) ==
    CHOOSE i \in 1..Len(seq) : seq[i] = x /\ \A j \in 1..(i - 1) : seq[j] # x

C15_Shown(top, k) == \E i \in 1..Len(top) : top[i].key = k

\* top is the n highest counts of counter, in descending order, equal counts
\* in the order their keys come first in `encountered`
C15_TopOk(top, counter, encountered, n) ==
    /\ Len(top) = Min(n, Len(counter))
    /\ \A i \in 1..Len(top) :
          /\ top[i].n = CounterGet(counter, top[i].key)
          /\ \A j \in 1..Len(top) : top[i].key = top[j].key => i = j
    /\ \A i \in 1..(Len(top) - 1) : top[i].n >= top[i + 1].n
    /\ \A i, j \in 1..Len(top) :
          (i < j /\ top[i].n = top[j].n) =>
             C15_First(encountered, top[i].key) < C15_First(encountered, top[j].key)
    /\ \A c \in 1..Len(counter) :
          ~C15_Shown(top, counter[c].key) =>
             \A i \in 1..Len(top) :
                /\ counter[c].n <= top[i].n
                /\ counter[c].n = top[i].n =>
                      C15_First(encountered, top[i].key)
                         < C15_First(encountered, counter[c].key)

RECURSIVE C15_PathsInOrder(_)
\* the paths of the events, sessions in grouping order, events in session order
C15_PathsInOrder(ss) ==
    IF ss = <<>> THEN <<>>
    ELSE PathSequence(ss[1].events) \o C15_PathsInOrder(Tail(ss))

\* the three lists of _analyze_flow_patterns
C15_FlowPatternLists ==
    ("flow_patterns" \in locals.reached) =>
       /\ \A i \in Findings(flows, "Successful Purchase Flows") :
             C15_TopOk(flows[i].most_common_patterns,
                       CounterOf(SuccessfulPaths(locals.successful_checkouts)),
                       SuccessfulPaths(locals.successful_checkouts), 3)
       /\ \A i \in Findings(flows, "Flow Abandonment Patterns") :
             C15_TopOk(flows[i].common_exit_points, locals.abandonment_points,
                       LastPaths(locals.abandoned_flows), 5)
       /\ \A i \in Findings(flows, "User Entry Points") :
             C15_TopOk(flows[i].top_entry_points, locals.entry_points,
                       FirstPaths(SelectSeq(locals.path_sequences, NonEmptySeq)), 5)

\* the list of _analyze_product_insights
C15_ProductList ==
    ("product_insights" \in locals.reached) =>
       \A i \in Findings(flows, "Most Consulted Products") :
          C15_TopOk(flows[i].top_products, locals.product_sessions,
                    C15_PathsInOrder(FlattenSessions(user_sessions)), 10)

\* C15: every top-N list of a flow finding is in descending count order,
\* holds the N highest counts, and orders equal counts by which key was
\* encountered first, sessions taken in grouping order and events in session
\* order.
C15_TopListsBreakTiesByFirstEncounter ==
    C15_FlowPatternLists /\ C15_ProductList

-----------------------------------------------------------------------------
(* C16 *)

IsPrefix(a, b) == Len(a) <= Len(b) /\ SubSeq(b, 1, Len(a)) = a

C16_InAnalyzeFlows ==
    pc \in {"analyze_flows", "_analyze_flow_patterns",
            "_analyze_product_insights", "_analyze_page_activity"}

C16_InDetectAnomalies ==
    pc \in {"detect_anomalies", "_detect_error_patterns",
            "_detect_unusual_behaviors"}

C16_Step ==
    /\ (C16_InAnalyzeFlows \/ C16_InDetectAnomalies) =>
          /\ events' = events
          /\ user_sessions' = user_sessions
          /\ IsPrefix(flows, flows')
          /\ IsPrefix(anomalies, anomalies')
    /\ C16_InAnalyzeFlows => anomalies' = anomalies
    /\ C16_InDetectAnomalies =>
          /\ flows' = flows
          /\ Len(anomalies') <= Len(anomalies) + 1

\* C16: every step of analyze_flows and of detect_anomalies leaves
\* self.events and the grouped user_sessions as they are, and leaves in flows
\* and in anomalies every Finding already there, unchanged and at its place:
\* it can only append; a call of one of the three detectors appends at most
\* one Finding.
C16_AnalysesOnlyAppend == [][C16_Step]_vars

C16_Witness ==
    /\ pc = "done"
    /\ events # <<>>
    /\ Len(flows) = 4
    /\ Len(anomalies) = 2
    /\ anomalies[1].title = "User Confusion / Long Delays"
    /\ anomalies[2].title = "Technical Errors"

-----------------------------------------------------------------------------
(* C17 *)

\* C17: whatever events the validator accepted, analyze_flows and
\* detect_anomalies return: a css or text that is absent or null, a path that
\* is no string, never make them raise.
C17_AnalysesReturn ==
    pc \notin {"raised_in_analyze_flows", "raised_in_detect_anomalies"}

====
